---- MODULE Spec2Model ----
(***************************************************************************)
(* Model of the weather/geocoding pipeline: DataEnricher (enricher.py),   *)
(* GeocodingResult (models.py), QualityAnalyzer (quality.py),             *)
(* StorageManager (storage.py) and run_pipeline (main.py).                *)
(*                                                                         *)
(* Conventions.  A nullable value is a sequence of length at most one:    *)
(* <<>> is None and <<v>> is the value v.  A string is a sequence of      *)
(* one-character strings, so that str.strip() is computed and not         *)
(* assumed.  A geocoding score (a float in [0,1]) is kept in tenths.      *)
(***************************************************************************)
EXTENDS Integers, Sequences, FiniteSets, TLC

VARIABLES
    forecasts,          \* main.py: the list of forecast dicts of the run
    addresses,          \* result of the last extract_addresses call
    requested,          \* addresses passed to the last build_geocoding_cache
    lookup_log,         \* geocode lookups issued by the last build, in order
    geocoding_cache,    \* result of the last build_geocoding_cache call
    enriched,           \* result of the last enrich_forecasts call
    enrichment_stats,   \* DataEnricher.enrichment_stats
    stats_out,          \* result of the last get_stats call (<<>> before)
    passed,             \* history: every (record, cache match) enrich saw
    step,               \* position of the caller in the enrichment protocol
    df,                 \* QualityAnalyzer.df
    metrics,            \* QualityAnalyzer.metrics (<<>> before analyze)
    grade_call,         \* arguments and result of the last determine_grade call
    now,                \* the clock datetime.now() reads, in ticks
    raw_dir,            \* files of RAW_DIR
    processed_dir,      \* files of PROCESSED_DIR
    reports_dir,        \* files of REPORTS_DIR
    pc,                 \* position of the current run_pipeline call
    skip_enrichment,    \* argument of the current run_pipeline call
    status,             \* how the last finished run_pipeline call ended
    start_day,          \* history: calendar day on which the current run started
    report_day,         \* history: calendar day stamped on the current run's report
    full_runs,          \* history: the days of the runs that went through all stages
    started,            \* history: number of run_pipeline calls so far
    last_check,         \* arguments and result of a direct file_exists_for_today call
    run_log,            \* history: the steps the current run_pipeline call has done
    calls,              \* history: completion() calls of the last recommendation request
    recommendations,    \* result of the last generate_ai_recommendations call
    report,             \* text parts of the last report written
    report_result,      \* how the last generate_report call ended (<<>> before)
    tdf,                \* DataTransformer.df
    transformations_applied,   \* DataTransformer.transformations_applied
    before,             \* history: DataTransformer.df before the last stage call
    last_stage,         \* history: the last stage call, its number and arguments
    cut_points          \* thresholds of the precipitation categories

enrichVars == <<forecasts, addresses, requested, lookup_log, geocoding_cache,
                enriched, enrichment_stats, stats_out, passed, step>>

gradeVars == <<df, metrics, grade_call>>

runVars == <<now, raw_dir, processed_dir, reports_dir, pc, skip_enrichment, status,
             start_day, report_day, full_runs, started, last_check, run_log>>

reportVars == <<calls, recommendations, report, report_result>>

transformVars == <<tdf, transformations_applied, before, last_stage, cut_points>>

vars == <<enrichVars, gradeVars, runVars, reportVars, transformVars>>

----------------------------------------------------------------------------
(* Bounds of the model *)

MaxRecords == 2     \* length of a record list over all the city names
MaxRepeats == 3     \* length of a record list over the two spellings of one city
MaxCalls == 2       \* enrich_forecasts calls on one DataEnricher
MaxRows == 2        \* rows of a batch handed to the QualityAnalyzer
MaxClock == 4       \* last tick of the clock
DayLength == 2      \* ticks in a calendar day
MaxBatch == 2       \* rows of a free batch handed to the DataTransformer
MaxStages == 3      \* stage calls chained on one DataTransformer
MaxCities == 2      \* cities of one fetch
MaxRuns == 3        \* run_pipeline calls

----------------------------------------------------------------------------
(* Values *)

None == <<>>
Some(v) == <<v>>

\* City names as the source record may carry them.
Paris == <<"P">>
ParisPadded == <<" ", "P">>
Lyon == <<"L">>
Blank == <<" ">>
Empty == <<>>

CityNames == {Paris, ParisPadded, Lyon, Blank, Empty}

\* Address sets a caller may hand to build_geocoding_cache directly.
CallerAddresses == {{}, {ParisPadded}}

\* models.py WeatherForecast, as the dict the fetcher yields: the geocoding
\* fields are present and None.
WeatherForecast(date, city, lat, lon) ==
    [date |-> date, latitude |-> Some(lat), longitude |-> Some(lon),
     temperature_max |-> Some(10), temperature_min |-> Some(5),
     precipitation_sum |-> Some(0), weather_code |-> Some(3),
     original_city_name |-> city,
     validated_city |-> None, validated_postal_code |-> None,
     geocoding_score |-> None,
     fetched_at |-> Some(0), quality_score |-> None]

\* openmeteo.py DUMMY_COORDS.get(city, Paris): integer stand-ins of the pairs.
DUMMY_COORDS(city) == IF city = Lyon THEN <<45, 4>> ELSE <<48, 2>>

ForecastRecords ==
    {WeatherForecast(1, c, DUMMY_COORDS(c)[1], DUMMY_COORDS(c)[2]) : c \in CityNames}

RECURSIVE SeqsUpTo(_, _)
SeqsUpTo(S, n) ==
    IF n = 0 THEN {<<>>}
    ELSE LET shorter == SeqsUpTo(S, n - 1)
         IN  shorter \cup {Append(s, x) : s \in {t \in shorter : Len(t) = n - 1}, x \in S}

\* The record lists a caller passes to the enricher.
ForecastLists ==
    SeqsUpTo(ForecastRecords, MaxRecords)
    \cup SeqsUpTo({f \in ForecastRecords : f.original_city_name \in {Paris, ParisPadded}},
                  MaxRepeats)

----------------------------------------------------------------------------
(* models.py GeocodingResult *)

GeocodingResult(address, lat, lon, score, postal, city) ==
    [original_address |-> address, latitude |-> lat, longitude |-> lon,
     score |-> score, postal_code |-> postal, city |-> city]

ValidScoreMin == 5

is_valid_strict(geo) == geo.score > ValidScoreMin /\ geo.latitude # None

is_valid(geo) == geo.score >= ValidScoreMin /\ geo.latitude # None

----------------------------------------------------------------------------
(* str.strip() on a string kept as a sequence of characters *)

RECURSIVE lstrip(_)
lstrip(s) == IF s # <<>> /\ Head(s) = " " THEN lstrip(Tail(s)) ELSE s

RECURSIVE rstrip(_)
rstrip(s) ==
    IF s # <<>> /\ s[Len(s)] = " " THEN rstrip(SubSeq(s, 1, Len(s) - 1)) ELSE s

strip(s) == rstrip(lstrip(s))

----------------------------------------------------------------------------
(* enricher.py DataEnricher *)

\* A set as a list in some iteration order (list(addresses), enricher.py:32).
RECURSIVE SeqOf(_)
SeqOf(S) ==
    IF S = {} THEN <<>>
    ELSE LET x == CHOOSE y \in S : TRUE IN <<x>> \o SeqOf(S \ {x})

\* enricher.py:21-32.  addr is kept when it is a non-empty string whose
\* stripped form is non-empty, and it is the stripped form that is added.
extract_addresses(fs) ==
    {strip(fs[i].original_city_name) : i \in {j \in 1..Len(fs) :
        fs[j].original_city_name # <<>> /\ strip(fs[j].original_city_name) # <<>>}}

\* What one geocode lookup can return (fetchers/adresse.py is not in src/).
\* A city of CITIES_FRANCE (openmeteo.py:12-23) that DUMMY_COORDS does not list.
Toulouse == <<"T">>

\* The coordinates the address service knows for a place: one pair per place.
validated_coords(address) ==
    LET place == strip(address)
    IN  IF place = Lyon THEN <<46, 5>>
        ELSE IF place = Toulouse THEN <<44, 1>>
        ELSE <<49, 3>>

LookupOutcomes == {"ok", "boundary", "low", "no_latitude", "no_longitude", "failed"}

geocode_single(address, outcome) ==
    CASE outcome = "ok" ->
            GeocodingResult(address, Some(validated_coords(address)[1]),
                            Some(validated_coords(address)[2]), 9, Some(<<"7">>), Some(strip(address)))
      [] outcome = "boundary" ->
            GeocodingResult(address, Some(validated_coords(address)[1]),
                            Some(validated_coords(address)[2]), ValidScoreMin, Some(<<"7">>), Some(strip(address)))
      [] outcome = "low" ->
            GeocodingResult(address, Some(validated_coords(address)[1]),
                            Some(validated_coords(address)[2]), 4, Some(<<"7">>), Some(strip(address)))
      [] outcome = "no_latitude" ->
            GeocodingResult(address, None, None, 9, None, Some(strip(address)))
      [] outcome = "no_longitude" ->
            GeocodingResult(address, Some(validated_coords(address)[1]), None, 9, None, Some(strip(address)))
      [] OTHER ->
            GeocodingResult(address, None, None, 0, None, None)

\* AdresseFetcher.fetch_all: one geocode_single per address of the list, in
\* order, a failed lookup yielding the score-0 result.
fetch_all(addrs, outcome) ==
    [i \in 1..Len(addrs) |-> geocode_single(addrs[i], outcome[addrs[i]])]

RECURSIVE cache_of_valid(_)
cache_of_valid(results) ==
    IF results = <<>> THEN <<>>
    ELSE LET r == results[Len(results)]
             rest == cache_of_valid(SubSeq(results, 1, Len(results) - 1))
         IN  IF is_valid(r) THEN (r.original_address :> r) @@ rest ELSE rest

\* The lookups fetch_all issues for a list of addresses: one per element.
lookups(addrs, outcome) ==
    [i \in 1..Len(addrs) |-> [address |-> addrs[i], outcome |-> outcome[addrs[i]]]]

\* enricher.py:37-40: cache[result.original_address] = result, for each result.
RECURSIVE cache_of(_)
cache_of(results) ==
    IF results = <<>> THEN <<>>
    ELSE LET r == results[Len(results)]
         IN  (r.original_address :> r) @@ cache_of(SubSeq(results, 1, Len(results) - 1))

\* enricher.py:35-44
build_geocoding_cache(addrs, outcome) == cache_of(fetch_all(addrs, outcome))

enrich_one_absent_scored(forecast, cache) ==
    LET city_name == forecast.original_city_name
        geo == IF city_name \in DOMAIN cache THEN cache[city_name]
               ELSE GeocodingResult(city_name, None, None, 0, None, None)
        matched == [forecast EXCEPT !.validated_city = geo.city,
                                    !.validated_postal_code = geo.postal_code,
                                    !.geocoding_score = Some(geo.score)]
    IN  IF is_valid(geo)
        THEN [matched EXCEPT !.latitude = geo.latitude, !.longitude = geo.longitude]
        ELSE matched

\* enricher.py:61-78, the record built for one forecast
enrich_one(forecast, cache) ==
    LET city_name == forecast.original_city_name
    IN  IF city_name \in DOMAIN cache
        THEN LET geo == cache[city_name]
                 matched == [forecast EXCEPT !.validated_city = geo.city,
                                             !.validated_postal_code = geo.postal_code,
                                             !.geocoding_score = Some(geo.score)]
             IN  IF is_valid(geo)
                 THEN [matched EXCEPT !.latitude = geo.latitude,
                                      !.longitude = geo.longitude]
                 ELSE matched
        ELSE forecast

count_one_absent_failed(stats, forecast, cache) ==
    LET city_name == forecast.original_city_name
        seen == [stats EXCEPT !.total_processed = @ + 1]
    IN  IF city_name \in DOMAIN cache /\ is_valid(cache[city_name])
        THEN [seen EXCEPT !.successfully_enriched = @ + 1]
        ELSE [seen EXCEPT !.failed_enrichment = @ + 1]

\* enricher.py:59, 64, 73-78, the counters after one forecast
count_one(stats, forecast, cache) ==
    LET city_name == forecast.original_city_name
        seen == [stats EXCEPT !.total_processed = @ + 1]
    IN  IF city_name \in DOMAIN cache
        THEN IF is_valid(cache[city_name])
             THEN [seen EXCEPT !.successfully_enriched = @ + 1]
             ELSE [seen EXCEPT !.failed_enrichment = @ + 1]
        ELSE seen

RECURSIVE enrich_loop(_, _, _)
enrich_loop(fs, cache, acc) ==
    IF fs = <<>> THEN acc
    ELSE enrich_loop(Tail(fs), cache,
            [enriched |-> Append(acc.enriched, enrich_one(Head(fs), cache)),
             stats |-> count_one(acc.stats, Head(fs), cache)])

\* enricher.py:47-82: the list returned and the counters left on the object
enrich_forecasts(fs, cache, stats) ==
    enrich_loop(fs, cache, [enriched |-> <<>>, stats |-> stats])

\* enricher.py:84-94.  success_rate is the exact quotient num/den.
get_stats(stats) ==
    [total_processed |-> stats.total_processed,
     successfully_enriched |-> stats.successfully_enriched,
     failed_enrichment |-> stats.failed_enrichment,
     success_rate |->
        IF stats.total_processed > 0
        THEN [num |-> stats.successfully_enriched * 100, den |-> stats.total_processed]
        ELSE [num |-> 0, den |-> 1]]

----------------------------------------------------------------------------
(* The enricher driven as main.py:98-109 drives it: extract, build, enrich, *)
(* then get_stats; the same DataEnricher may serve several such rounds.    *)

NoStats == [total_processed |-> 0, successfully_enriched |-> 0, failed_enrichment |-> 0]

NoneSeen == [calls |-> 0, total |-> 0, valid |-> 0, invalid |-> 0, absent |-> 0]

\* History of what enrich_forecasts was given, counted from the inputs alone.
Matches(fs, cache) == {i \in 1..Len(fs) : fs[i].original_city_name \in DOMAIN cache}

Seen(fs, cache) ==
    LET validOnes == {i \in Matches(fs, cache) :
                        /\ cache[fs[i].original_city_name].score >= ValidScoreMin
                        /\ cache[fs[i].original_city_name].latitude # None}
    IN  [calls |-> passed.calls + 1,
         total |-> passed.total + Len(fs),
         valid |-> passed.valid + Cardinality(validOnes),
         invalid |-> passed.invalid + Cardinality(Matches(fs, cache) \ validOnes),
         absent |-> passed.absent + (Len(fs) - Cardinality(Matches(fs, cache)))]

EnricherCreated ==
    /\ forecasts = <<>>
    /\ addresses = {}
    /\ requested = {}
    /\ lookup_log = <<>>
    /\ geocoding_cache = <<>>
    /\ enriched = <<>>
    /\ enrichment_stats = NoStats
    /\ stats_out = None
    /\ passed = NoneSeen
    /\ step = "extract"

NoAnalyzer ==
    /\ df = [columns |-> {}, rows |-> <<>>]
    /\ metrics = None
    /\ grade_call = None

\* No run_pipeline call yet, empty data directories (config.py:12-13).
NoRun ==
    /\ now = 0
    /\ raw_dir = {}
    /\ processed_dir = {}
    /\ reports_dir = {}
    /\ pc = "idle"
    /\ skip_enrichment = FALSE
    /\ status = None
    /\ start_day = 0
    /\ report_day = 0
    /\ full_runs = <<>>
    /\ started = 0
    /\ last_check = None
    /\ run_log = <<>>

NoReport ==
    /\ calls = <<>>
    /\ recommendations = None
    /\ report = None
    /\ report_result = None

NoTransformer ==
    /\ tdf = [columns |-> {}, rows |-> <<>>]
    /\ transformations_applied = <<>>
    /\ before = None
    /\ last_stage = None
    /\ cut_points = <<0, 5, 20>>

InitEnrich == EnricherCreated /\ NoAnalyzer /\ NoRun /\ NoReport /\ NoTransformer

\* addresses = enricher.extract_addresses(forecasts, "original_city_name")
ExtractAddresses ==
    /\ step = "extract"
    /\ passed.calls < MaxCalls
    /\ \E fs \in ForecastLists :
          /\ forecasts' = fs
          /\ addresses' = extract_addresses(fs)
    /\ stats_out' = None
    /\ step' = "build"
    /\ UNCHANGED <<requested, lookup_log, geocoding_cache, enriched,
                   enrichment_stats, passed>>
    /\ UNCHANGED <<gradeVars, runVars, reportVars, transformVars>>

\* geo_cache = enricher.build_geocoding_cache(addresses), each lookup ending
\* in any of its outcomes.
BuildGeocodingCache ==
    /\ step = "build"
    /\ \E addrs \in {addresses} \cup CallerAddresses :
       \E outcome \in [addrs -> LookupOutcomes] :
          /\ requested' = addrs
          /\ lookup_log' = lookups(SeqOf(addrs), outcome)
          /\ geocoding_cache' = build_geocoding_cache(SeqOf(addrs), outcome)
    /\ step' = "enrich"
    /\ UNCHANGED <<forecasts, addresses, enriched, enrichment_stats, stats_out, passed>>
    /\ UNCHANGED <<gradeVars, runVars, reportVars, transformVars>>

\* forecasts = enricher.enrich_forecasts(forecasts, geo_cache, ...)
EnrichForecasts ==
    /\ step = "enrich"
    /\ LET out == enrich_forecasts(forecasts, geocoding_cache, enrichment_stats)
       IN  /\ enriched' = out.enriched
           /\ enrichment_stats' = out.stats
    /\ passed' = Seen(forecasts, geocoding_cache)
    /\ step' = "enriched"
    /\ UNCHANGED <<forecasts, addresses, requested, lookup_log, geocoding_cache, stats_out>>
    /\ UNCHANGED <<gradeVars, runVars, reportVars, transformVars>>

\* stats["enricher"] = enricher.get_stats()
GetStats ==
    /\ step \in {"extract", "enriched"}
    /\ stats_out = None
    /\ stats_out' = Some(get_stats(enrichment_stats))
    /\ UNCHANGED <<forecasts, addresses, requested, lookup_log, geocoding_cache,
                   enriched, enrichment_stats, passed, step>>
    /\ UNCHANGED <<gradeVars, runVars, reportVars, transformVars>>

\* The caller returns: its locals are gone, the counters stay on the object.
Return ==
    /\ step = "enriched"
    /\ forecasts' = <<>>
    /\ addresses' = {}
    /\ requested' = {}
    /\ lookup_log' = <<>>
    /\ geocoding_cache' = <<>>
    /\ enriched' = <<>>
    /\ stats_out' = None
    /\ step' = "extract"
    /\ UNCHANGED <<enrichment_stats, passed>>
    /\ UNCHANGED <<gradeVars, runVars, reportVars, transformVars>>

NextEnrich ==
    \/ ExtractAddresses
    \/ BuildGeocodingCache
    \/ EnrichForecasts
    \/ GetStats
    \/ Return

SpecEnrich == InitEnrich /\ [][NextEnrich]_vars

----------------------------------------------------------------------------
(* Claims about the enricher, checked under SpecEnrich *)

\* The city names a record list references; an empty or all-blank string
\* names no city and is left out.
UniqueCityNames(fs) ==
    {fs[i].original_city_name : i \in {j \in 1..Len(fs) :
        \E n \in 1..Len(fs[j].original_city_name) : fs[j].original_city_name[n] # " "}}

CacheBuiltFromExtraction == step \in {"enrich", "enriched"} /\ requested = addresses

\* C1: when n records reference k < n unique city names, extracting the
\* addresses and building the cache issues exactly k lookups, none of them
\* twice for the same name.
C1_OneLookupPerUniqueName ==
    (CacheBuiltFromExtraction /\ Cardinality(UniqueCityNames(forecasts)) < Len(forecasts))
    => /\ Len(lookup_log) = Cardinality(UniqueCityNames(forecasts))
       /\ \A i, j \in 1..Len(lookup_log) :
            lookup_log[i].address = lookup_log[j].address => i = j

\* C2: a record's coordinates are the geocoded ones exactly when its cache
\* match has score >= 0.5 and a latitude; with a match that is not valid, or
\* no match, they are the ones supplied.
C2_CoordinatesReplacedIffValid ==
    step = "enriched" =>
        /\ Len(enriched) = Len(forecasts)
        /\ \A i \in 1..Len(forecasts) :
            LET f == forecasts[i]
                e == enriched[i]
                city == f.original_city_name
            IN  IF /\ city \in DOMAIN geocoding_cache
                   /\ geocoding_cache[city].score >= 5
                   /\ geocoding_cache[city].latitude # None
                THEN /\ e.latitude = geocoding_cache[city].latitude
                     /\ e.longitude = geocoding_cache[city].longitude
                ELSE /\ e.latitude = f.latitude
                     /\ e.longitude = f.longitude

C2_Witness ==
    /\ step = "enriched"
    /\ \E i \in 1..Len(forecasts) :
          /\ forecasts[i].original_city_name \in DOMAIN geocoding_cache
          /\ geocoding_cache[forecasts[i].original_city_name].score = 5
          /\ enriched[i].latitude # forecasts[i].latitude
    /\ \E i \in 1..Len(forecasts) :
          /\ forecasts[i].original_city_name \in DOMAIN geocoding_cache
          /\ geocoding_cache[forecasts[i].original_city_name].score = 4
          /\ geocoding_cache[forecasts[i].original_city_name].latitude # forecasts[i].latitude
          /\ enriched[i].latitude = forecasts[i].latitude

\* C6: the counters equal the numbers of records passed in, of valid matches
\* and of matches that are not valid, over all the calls; a record absent
\* from the cache is in neither; get_stats reports successfully_enriched /
\* total_processed * 100, and 0 while nothing was processed.
C6_CountersMatchOutcomes ==
    /\ enrichment_stats.total_processed = passed.total
    /\ enrichment_stats.successfully_enriched = passed.valid
    /\ enrichment_stats.failed_enrichment = passed.invalid
    /\ enrichment_stats.total_processed - enrichment_stats.successfully_enriched
         - enrichment_stats.failed_enrichment = passed.absent
    /\ stats_out # None =>
          LET rate == stats_out[1].success_rate
          IN  IF passed.total = 0
              THEN rate.num = 0 /\ rate.den > 0
              ELSE rate.den > 0 /\ rate.num * passed.total = passed.valid * 100 * rate.den

C6_Witness ==
    /\ passed.calls = 2
    /\ passed.valid > 0
    /\ passed.invalid > 0
    /\ passed.absent > 0
    /\ stats_out # None

\* C7: the cache holds an entry for every requested address; a failed lookup
\* is present with score 0 and no coordinates, hence not valid, and the
\* other addresses keep their own entries.
C7_CacheCompleteUnderFailure ==
    step \in {"enrich", "enriched"} =>
        /\ DOMAIN geocoding_cache = requested
        /\ \A i \in 1..Len(lookup_log) :
            LET a == lookup_log[i].address
            IN  /\ a \in DOMAIN geocoding_cache
                /\ geocoding_cache[a].original_address = a
                /\ lookup_log[i].outcome = "failed" =>
                      /\ geocoding_cache[a].score = 0
                      /\ geocoding_cache[a].latitude = None
                      /\ geocoding_cache[a].longitude = None
                /\ lookup_log[i].outcome = "ok" => geocoding_cache[a].score = 9

C7_Witness ==
    /\ step = "enrich"
    /\ Cardinality(requested) = 2
    /\ \E i \in 1..Len(lookup_log) : lookup_log[i].outcome = "failed"
    /\ \E i \in 1..Len(lookup_log) : lookup_log[i].outcome = "ok"

\* C8: the extracted addresses are the raw city strings, untrimmed (two
\* names that differ by surrounding whitespace are two addresses), and every
\* record that names a city finds its raw city string in the cache built
\* from the extracted addresses.
C8_RawCityKeys ==
    /\ step # "extract" => addresses = UniqueCityNames(forecasts)
    /\ (step = "enriched" /\ requested = addresses) =>
          \A i \in 1..Len(forecasts) :
             forecasts[i].original_city_name \in UniqueCityNames(forecasts)
                => forecasts[i].original_city_name \in DOMAIN geocoding_cache

\* C10: enrich_forecasts returns one record per input record, in the input
\* order, whatever the cache holds; a record without a cache entry keeps its
\* geocoding fields null.
C10_MergeDegradesGracefully ==
    step = "enriched" =>
        /\ Len(enriched) = Len(forecasts)
        /\ \A i \in 1..Len(forecasts) :
            /\ enriched[i].date = forecasts[i].date
            /\ enriched[i].original_city_name = forecasts[i].original_city_name
            /\ forecasts[i].original_city_name \notin DOMAIN geocoding_cache =>
                  /\ enriched[i].validated_city = None
                  /\ enriched[i].validated_postal_code = None
                  /\ enriched[i].geocoding_score = None

C10_Witness ==
    /\ step = "enriched"
    /\ Len(forecasts) = 3
    /\ \E i \in 1..Len(forecasts) :
          /\ forecasts[i].original_city_name = Paris
          /\ Paris \notin DOMAIN geocoding_cache
    /\ \E i \in 1..Len(forecasts) :
          /\ forecasts[i].original_city_name \in DOMAIN geocoding_cache
          /\ geocoding_cache[forecasts[i].original_city_name].score = 0
          /\ enriched[i].geocoding_score = Some(0)

\* C22: whatever the cache holds (any score, latitude and longitude null or
\* not, independently), a record that went in with a latitude and a
\* longitude comes out of enrich_forecasts with a latitude and a longitude.
C22_MergeKeepsCoordinates ==
    step = "enriched" =>
        \A i \in 1..Len(forecasts) :
            (forecasts[i].latitude # None /\ forecasts[i].longitude # None) =>
                (enriched[i].latitude # None /\ enriched[i].longitude # None)

----------------------------------------------------------------------------
(* Exact fractions: the floats of quality.py, without their rounding *)

RECURSIVE GCD(_, _)
GCD(a, b) == IF b = 0 THEN a ELSE GCD(b, a % b)

Frac(n, d) == LET g == GCD(n, d) IN [num |-> n \div g, den |-> d \div g]

Whole(n) == [num |-> n, den |-> 1]

FracAdd(a, b) == Frac(a.num * b.den + b.num * a.den, a.den * b.den)

\* a * k / m
FracScale(a, k, m) == Frac(a.num * k, a.den * m)

FracLE(a, b) == a.num * b.den <= b.num * a.den

FracMin(a, b) == IF FracLE(a, b) THEN a ELSE b

\* round(a, digits) with scale = 10^digits: the nearest multiple of 1/scale
\* (no value of the model lies halfway between two of them)
Round(a, scale) == Frac((2 * a.num * scale + a.den) \div (2 * a.den), scale)

----------------------------------------------------------------------------
(* quality.py QualityAnalyzer *)

\* The columns pd.DataFrame(forecasts) gets from the forecast dicts.
AllColumns == DOMAIN WeatherForecast(1, Paris, 48, 2)

GeoColumns == {"validated_city", "validated_postal_code", "geocoding_score"}

\* Columns whose cells are never missing (date and original_city_name are
\* required fields of WeatherForecast); every other cell is nullable.
RequiredColumns == {"date", "original_city_name"}

notna(row, col) == col \in RequiredColumns \/ row[col] # None

\* main.py:117  df = pd.DataFrame(forecasts)
DataFrame(fs) == [columns |-> AllColumns, rows |-> fs]

\* The same batch without the geocoding columns.
WithoutGeocoding(frame) ==
    [columns |-> frame.columns \ GeoColumns,
     rows |-> [i \in 1..Len(frame.rows) |->
                 [c \in frame.columns \ GeoColumns |-> frame.rows[i][c]]]]

\* Rows as the pipeline hands them over: as fetched (no geocoding), or
\* enriched from a valid or from a failed lookup.
BatchRows ==
    UNION {{enrich_one(WeatherForecast(1, c, DUMMY_COORDS(c)[1], DUMMY_COORDS(c)[2]), cache) :
               cache \in {<<>>} \cup {(c :> geocode_single(c, o)) : o \in {"ok", "failed"}}} :
           c \in {Paris, Lyon}}

\* openmeteo.py:38  "forecast_days": 7
ForecastDays == 7

\* A fully populated, geocoded record of one city and day.
FullRecord(date, city) ==
    [enrich_one(WeatherForecast(date, city, DUMMY_COORDS(city)[1], DUMMY_COORDS(city)[2]),
                city :> geocode_single(city, "ok"))
        EXCEPT !.quality_score = Some(100)]

\* 2 cities x ForecastDays days, city after city as fetch_all yields them
FullBatch ==
    [i \in 1..(2 * ForecastDays) |->
        FullRecord(((i - 1) % ForecastDays) + 1, IF i <= ForecastDays THEN Paris ELSE Lyon)]

\* The same batch with record k a second copy of record k - 1 (k = 1: no copy).
ScenarioFrames ==
    {DataFrame([i \in 1..(2 * ForecastDays) |->
                   IF i = k /\ k > 1 THEN FullBatch[k - 1] ELSE FullBatch[i]]) :
        k \in 1..(2 * ForecastDays)}

Frames ==
    {DataFrame(fs) : fs \in SeqsUpTo(BatchRows, MaxRows)}
    \cup {WithoutGeocoding(DataFrame(fs)) : fs \in SeqsUpTo(BatchRows, MaxRows)}
    \cup ScenarioFrames

\* quality.py:24-28
calculate_completeness(frame) ==
    LET total_cells == Len(frame.rows) * Cardinality(frame.columns)
        non_null_cells ==
            Cardinality({<<i, c>> \in (1..Len(frame.rows)) \X frame.columns :
                            notna(frame.rows[i], c)})
    IN  IF total_cells > 0 THEN Frac(non_null_cells, total_cells) ELSE Whole(0)

count_duplicates_keep_false(frame) ==
    LET duplicates ==
            Cardinality({i \in 1..Len(frame.rows) : \E j \in (1..Len(frame.rows)) \ {i} :
                /\ frame.rows[j].date = frame.rows[i].date
                /\ frame.rows[j].original_city_name = frame.rows[i].original_city_name})
    IN  [duplicates |-> duplicates,
         pct |-> IF Len(frame.rows) > 0 THEN Frac(duplicates * 100, Len(frame.rows))
                 ELSE Whole(0)]

\* quality.py:30-40: rows whose (date, original_city_name) occurred earlier
count_duplicates(frame) ==
    LET duplicates ==
            Cardinality({i \in 1..Len(frame.rows) : \E j \in 1..(i - 1) :
                /\ frame.rows[j].date = frame.rows[i].date
                /\ frame.rows[j].original_city_name = frame.rows[i].original_city_name})
    IN  [duplicates |-> duplicates,
         pct |-> IF Len(frame.rows) > 0 THEN Frac(duplicates * 100, Len(frame.rows))
                 ELSE Whole(0)]

RECURSIVE SumScores(_, _)
SumScores(frame, rowset) ==
    IF rowset = {} THEN 0
    ELSE LET i == CHOOSE j \in rowset : TRUE
         IN  frame.rows[i].geocoding_score[1] + SumScores(frame, rowset \ {i})

\* quality.py:42-51; avg_score is in tenths, like the scores
calculate_geocoding_stats(frame) ==
    IF "geocoding_score" \notin frame.columns
    THEN [success_rate |-> Whole(0), avg_score |-> Whole(0)]
    ELSE LET valid_geo == {i \in 1..Len(frame.rows) :
                             /\ frame.rows[i].geocoding_score # None
                             /\ frame.rows[i].geocoding_score[1] > 0}
         IN  [success_rate |-> IF Len(frame.rows) > 0
                               THEN Frac(Cardinality(valid_geo) * 100, Len(frame.rows))
                               ELSE Whole(0),
              avg_score |-> IF valid_geo # {}
                            THEN Frac(SumScores(frame, valid_geo), Cardinality(valid_geo))
                            ELSE Whole(0)]

\* quality.py:53-55
calculate_null_counts(frame) ==
    [c \in frame.columns |->
        Cardinality({i \in 1..Len(frame.rows) : ~notna(frame.rows[i], c)})]

\* quality.py:59-76, the score before it is bucketed
score_of_two_bands(frame, completeness, duplicates_pct, geo_rate) ==
    LET completeness_points == FracMin(FracScale(completeness, 40, 1), Whole(40))
        duplicates_points ==
            IF FracLE(duplicates_pct, Whole(1)) THEN 30
            ELSE IF FracLE(duplicates_pct, Whole(5)) THEN 20
            ELSE 0
        geocoding_points ==
            IF "geocoding_score" \in frame.columns
            THEN FracMin(FracScale(geo_rate, 30, 100), Whole(30))
            ELSE Whole(30)
    IN  FracAdd(FracAdd(completeness_points, Whole(duplicates_points)), geocoding_points)

score_of(frame, completeness, duplicates_pct, geo_rate) ==
    LET completeness_points == FracMin(FracScale(completeness, 40, 1), Whole(40))
        duplicates_points ==
            IF FracLE(duplicates_pct, Whole(1)) THEN 30
            ELSE IF FracLE(duplicates_pct, Whole(5)) THEN 20
            ELSE IF FracLE(duplicates_pct, Whole(10)) THEN 10
            ELSE 0
        geocoding_points ==
            IF "geocoding_score" \in frame.columns
            THEN FracMin(FracScale(geo_rate, 30, 100), Whole(30))
            ELSE Whole(30)
    IN  FracAdd(FracAdd(completeness_points, Whole(duplicates_points)), geocoding_points)

grade_of_strict(score) ==
    IF ~FracLE(score, Whole(90)) THEN "A"
    ELSE IF ~FracLE(score, Whole(75)) THEN "B"
    ELSE IF ~FracLE(score, Whole(60)) THEN "C"
    ELSE IF ~FracLE(score, Whole(40)) THEN "D"
    ELSE "F"

\* quality.py:78-88
grade_of(score) ==
    IF FracLE(Whole(90), score) THEN "A"
    ELSE IF FracLE(Whole(75), score) THEN "B"
    ELSE IF FracLE(Whole(60), score) THEN "C"
    ELSE IF FracLE(Whole(40), score) THEN "D"
    ELSE "F"

\* quality.py:57-88
determine_grade(frame, completeness, duplicates_pct, geo_rate) ==
    grade_of(score_of(frame, completeness, duplicates_pct, geo_rate))

\* quality.py:90-113
analyze(frame) ==
    LET completeness == calculate_completeness(frame)
        dup == count_duplicates(frame)
        geo == calculate_geocoding_stats(frame)
    IN  [total_records |-> Len(frame.rows),
         valid_records |-> Len(frame.rows) - dup.duplicates,
         completeness_score |-> Round(completeness, 1000),
         duplicates_count |-> dup.duplicates,
         duplicates_pct |-> Round(dup.pct, 100),
         geocoding_success_rate |-> Round(geo.success_rate, 100),
         avg_geocoding_score |-> Round(geo.avg_score, 100),
         null_counts |-> calculate_null_counts(frame),
         quality_grade |-> determine_grade(frame, completeness, dup.pct, geo.success_rate)]

\* Arguments of direct determine_grade calls, on and next to the boundaries.
CompletenessGrid ==
    {Whole(0), Frac(1, 4), Frac(1, 2), Frac(5, 8), Frac(3, 4), Frac(7, 8),
     Frac(999, 1000), Whole(1), Frac(9, 8)}

DuplicatesGrid ==
    {Whole(0), Whole(1), Frac(1001, 1000), Whole(5), Frac(5001, 1000), Whole(10),
     Frac(10001, 1000)}

GeoRateGrid == {Whole(0), Frac(9999, 100), Whole(100), Whole(120)}

GradeCall(completeness, duplicates_pct, geo_rate, grade) ==
    [completeness |-> completeness, duplicates_pct |-> duplicates_pct,
     geo_rate |-> geo_rate, grade |-> grade]

\* QualityAnalyzer(df): quality.py:20-22
InitGrade ==
    /\ EnricherCreated
    /\ NoRun
    /\ NoReport
    /\ NoTransformer
    /\ df \in Frames
    /\ metrics = None
    /\ grade_call = None

\* metrics = analyzer.analyze()
Analyze ==
    /\ metrics = None
    /\ LET m == analyze(df)
       IN  /\ metrics' = Some(m)
           /\ grade_call' = Some(GradeCall(calculate_completeness(df), count_duplicates(df).pct,
                                           calculate_geocoding_stats(df).success_rate,
                                           m.quality_grade))
    /\ UNCHANGED df
    /\ UNCHANGED <<enrichVars, runVars, reportVars, transformVars>>

\* analyzer.determine_grade(completeness, duplicates_pct, geo_rate), called
\* with arguments of the caller's choosing
DetermineGrade ==
    /\ grade_call = None
    /\ \E c \in CompletenessGrid, d \in DuplicatesGrid, g \in GeoRateGrid :
          grade_call' = Some(GradeCall(c, d, g, determine_grade(df, c, d, g)))
    /\ UNCHANGED <<df, metrics>>
    /\ UNCHANGED <<enrichVars, runVars, reportVars, transformVars>>

NextGrade ==
    \/ Analyze
    \/ DetermineGrade

SpecGrade == InitGrade /\ [][NextGrade]_vars

----------------------------------------------------------------------------
(* Claims about the grading, checked under SpecGrade *)

\* The total of the grading rule, compared with a threshold t: completeness
\* c and duplicate rate d as fractions, gp the geocoding points.
\*   min(c * 40, 40) + band(d) + gp >= t
TotalAtLeast(c, d, gp, t) ==
    LET cpNum == IF c.num * 40 <= 40 * c.den THEN c.num * 40 ELSE 40 * c.den
        band == IF d.num <= d.den THEN 30
                ELSE IF d.num <= 5 * d.den THEN 20
                ELSE IF d.num <= 10 * d.den THEN 10
                ELSE 0
    IN  cpNum * gp.den + band * c.den * gp.den + gp.num * c.den >= t * c.den * gp.den

\* min(rate / 100 * 30, 30)
RatePoints(g) ==
    IF g.num * 30 <= 30 * g.den * 100
    THEN [num |-> g.num * 30, den |-> g.den * 100]
    ELSE [num |-> 30, den |-> 1]

GradeMatchesTotal(grade, c, d, gp) ==
    /\ grade = "A" <=> TotalAtLeast(c, d, gp, 90)
    /\ grade = "B" <=> (TotalAtLeast(c, d, gp, 75) /\ ~TotalAtLeast(c, d, gp, 90))
    /\ grade = "C" <=> (TotalAtLeast(c, d, gp, 60) /\ ~TotalAtLeast(c, d, gp, 75))
    /\ grade = "D" <=> (TotalAtLeast(c, d, gp, 40) /\ ~TotalAtLeast(c, d, gp, 60))
    /\ grade = "F" <=> ~TotalAtLeast(c, d, gp, 40)

\* C3: determine_grade returns the letter of total = min(completeness*40, 40)
\* + duplicate points (<=1: 30, <=5: 20, <=10: 10, else 0) + geocoding points
\* (min(rate/100*30, 30) with a geocoding_score column, else 30), with
\* A iff total >= 90, B iff 75 <= total < 90, C iff 60 <= total < 75,
\* D iff 40 <= total < 60, F iff total < 40.
C3_GradeBands ==
    grade_call # None =>
        LET call == grade_call[1]
            gp == IF "geocoding_score" \in df.columns
                  THEN RatePoints(call.geo_rate)
                  ELSE [num |-> 30, den |-> 1]
        IN  GradeMatchesTotal(call.grade, call.completeness, call.duplicates_pct, gp)

\* A total of exactly 90 (40 + 20 + 30) on a batch with a geocoding column.
C3_Witness ==
    /\ grade_call # None
    /\ "geocoding_score" \in df.columns
    /\ grade_call[1].completeness = Whole(1)
    /\ grade_call[1].duplicates_pct = Whole(5)
    /\ grade_call[1].geo_rate = Whole(100)
    /\ grade_call[1].grade = "A"

NoRecordGeocoded(frame) ==
    \A i \in 1..Len(frame.rows) :
        "geocoding_score" \in frame.columns => frame.rows[i].geocoding_score = None

\* C9: when the batch carries no geocoding (no record was geocoded, as in a
\* run with skip_enrichment), the geocoding factor is the full 30 points, so
\* the grade is the letter of min(completeness*40, 40) + duplicate points + 30
\* (A with completeness 1 and duplicates_pct <= 1).
C9_NoGeocodingFullPoints ==
    (/\ grade_call # None
     /\ Len(df.rows) > 0
     /\ NoRecordGeocoded(df)
     /\ grade_call[1].geo_rate = calculate_geocoding_stats(df).success_rate)
    => GradeMatchesTotal(grade_call[1].grade, grade_call[1].completeness,
                         grade_call[1].duplicates_pct, [num |-> 30, den |-> 1])

\* The distinct (date, original_city_name) pairs of a batch.
KeyPairs(frame) ==
    {<<frame.rows[i].date, frame.rows[i].original_city_name>> : i \in 1..Len(frame.rows)}

\* The fraction a is the nearest multiple of 1/scale to n / d.
NearestTo(a, scale, n, d) ==
    /\ (a.num * scale) % a.den = 0
    /\ 2 * scale * (a.num * d - n * a.den) <= a.den * d
    /\ 2 * scale * (n * a.den - a.num * d) <= a.den * d

\* C14: duplicates_count is the number of rows whose (date,
\* original_city_name) pair occurred in an earlier row, that is the number of
\* rows minus the number of distinct pairs; duplicates_pct is
\* duplicates_count / total_rows * 100 (0 for an empty batch), exactly as
\* count_duplicates hands it to the grading and to two decimals as stored;
\* valid_records = total_records - duplicates_count lies in 0..total_records.
C14_DuplicateMetrics ==
    metrics # None =>
        LET m == metrics[1]
            n == Len(df.rows)
            count == n - Cardinality(KeyPairs(df))
            passed_on == grade_call[1].duplicates_pct
        IN  /\ m.total_records = n
            /\ m.duplicates_count = count
            /\ IF n = 0
               THEN passed_on.num = 0 /\ m.duplicates_pct.num = 0
               ELSE /\ passed_on.num * n = count * 100 * passed_on.den
                    /\ NearestTo(m.duplicates_pct, 100, count * 100, n)
            /\ m.valid_records = m.total_records - m.duplicates_count
            /\ 0 <= m.valid_records
            /\ m.valid_records <= m.total_records

\* Two rows of one city and day: one duplicate, 50%, one valid record.
C14_Witness ==
    /\ metrics # None
    /\ Len(df.rows) = 2
    /\ metrics[1].duplicates_count = 1
    /\ metrics[1].duplicates_pct = Whole(50)
    /\ metrics[1].valid_records = 1

FullyPopulated(frame) ==
    \A i \in 1..Len(frame.rows) : \A c \in frame.columns : notna(frame.rows[i], c)

FullyGeocoded(frame) ==
    /\ "geocoding_score" \in frame.columns
    /\ \A i \in 1..Len(frame.rows) :
          frame.rows[i].geocoding_score # None /\ frame.rows[i].geocoding_score[1] > 0

----------------------------------------------------------------------------
(* storage.py and the stages of run_pipeline (main.py)                     *)
(* A file name "{name}_{%Y%m%d}_{%H%M%S}.{ext}" is kept as its four parts. *)

Today(t) == t \div DayLength           \* strftime("%Y%m%d")

TimeOfDay(t) == t % DayLength          \* strftime("%H%M%S")

FileName(name, t, ext) ==
    [prefix |-> name, date |-> Today(t), time |-> TimeOfDay(t), ext |-> ext]

\* storage.py:12-15  RAW_DIR / f"{name}_{timestamp}.json"
save_raw_json(name, t) == FileName(name, t, "json")

\* storage.py:26-29  PROCESSED_DIR / f"{name}_{timestamp}.parquet"
save_parquet(name, t) == FileName(name, t, "parquet")

generate_report_default_name(output_name, t) == FileName("quality_report", t, "md")

\* quality.py:221-224  REPORTS_DIR / f"{output_name}_{timestamp}.md"
generate_report(output_name, t) == FileName(output_name, t, "md")

file_exists_for_today_json(directory, prefix, t) ==
    \E f \in directory : f.prefix = prefix /\ f.date = Today(t) /\ f.ext = "json"

\* storage.py:47-55  directory.glob(f"{prefix}_{date_str}_*.md")
file_exists_for_today(directory, prefix, t) ==
    \E f \in directory : f.prefix = prefix /\ f.date = Today(t) /\ f.ext = "md"

Directories == {"raw", "processed", "reports"}

Prefixes == {"meteo_raw", "meteo_enriched", "meteo_quality"}

Dir(name) ==
    CASE name = "raw" -> raw_dir
      [] name = "processed" -> processed_dir
      [] OTHER -> reports_dir

InitRun == EnricherCreated /\ NoAnalyzer /\ NoRun /\ NoReport /\ NoTransformer

\* Time passes, between any two steps.
Tick ==
    /\ now < MaxClock
    /\ now' = now + 1
    /\ last_check' = None
    /\ UNCHANGED <<raw_dir, processed_dir, reports_dir, pc, skip_enrichment, status,
                   start_day, report_day, full_runs, started, run_log>>
    /\ UNCHANGED <<enrichVars, gradeVars, reportVars, transformVars>>

\* main.py:68-79: a call of run_pipeline, up to the incremental guard
StartRun ==
    /\ pc = "idle"
    /\ started < MaxRuns
    /\ started' = started + 1
    /\ start_day' = Today(now)
    /\ \E skip \in BOOLEAN : skip_enrichment' = skip
    /\ IF file_exists_for_today(reports_dir, "meteo_quality", now)
       THEN /\ status' = Some("skipped_incremental")
            /\ pc' = "idle"
       ELSE /\ status' = None
            /\ pc' = "fetch"
    /\ last_check' = None
    /\ run_log' = <<>>
    /\ UNCHANGED <<now, raw_dir, processed_dir, reports_dir, report_day, full_runs>>
    /\ UNCHANGED <<enrichVars, gradeVars, reportVars, transformVars>>

\* main.py:81-93: acquisition; nothing fetched ends the run
Fetch ==
    /\ pc = "fetch"
    /\ \E fetched \in BOOLEAN :
          IF fetched
          THEN /\ raw_dir' = raw_dir \cup {save_raw_json("meteo_raw", now)}
               /\ pc' = IF skip_enrichment THEN "transform" ELSE "enrich"
               /\ status' = status
          ELSE /\ raw_dir' = raw_dir
               /\ pc' = "idle"
               /\ status' = Some("no_data")
    /\ last_check' = None
    /\ run_log' = Append(run_log, "fetch")
    /\ UNCHANGED <<now, processed_dir, reports_dir, skip_enrichment, start_day,
                   report_day, full_runs, started>>
    /\ UNCHANGED <<enrichVars, gradeVars, reportVars, transformVars>>

\* main.py:95-113
Enrich ==
    /\ pc = "enrich"
    /\ pc' = "transform"
    /\ last_check' = None
    /\ run_log' = Append(run_log, "enrich")
    /\ UNCHANGED <<now, raw_dir, processed_dir, reports_dir, skip_enrichment, status,
                   start_day, report_day, full_runs, started>>
    /\ UNCHANGED <<enrichVars, gradeVars, reportVars, transformVars>>

\* main.py:115-130
Transform ==
    /\ pc = "transform"
    /\ pc' = "quality"
    /\ last_check' = None
    /\ run_log' = Append(run_log, "transform")
    /\ UNCHANGED <<now, raw_dir, processed_dir, reports_dir, skip_enrichment, status,
                   start_day, report_day, full_runs, started>>
    /\ UNCHANGED <<enrichVars, gradeVars, reportVars, transformVars>>

\* main.py:132-143: analysis, then the report written under today's name
QualityReport ==
    /\ pc = "quality"
    /\ reports_dir' = reports_dir \cup {generate_report("meteo_quality", now)}
    /\ report_day' = Today(now)
    /\ pc' = "store"
    /\ last_check' = None
    /\ run_log' = Append(run_log, "report")
    /\ UNCHANGED <<now, raw_dir, processed_dir, skip_enrichment, status,
                   start_day, full_runs, started>>
    /\ UNCHANGED <<enrichVars, gradeVars, reportVars, transformVars>>

\* main.py:145-162: final storage; a failed write raises out of the run
Store ==
    /\ pc = "store"
    /\ \E written \in BOOLEAN :
          IF written
          THEN /\ processed_dir' = processed_dir \cup {save_parquet("meteo_enriched", now)}
               /\ status' = Some("completed")
               /\ full_runs' = Append(full_runs, [start |-> start_day, report |-> report_day,
                                                   end |-> Today(now)])
          ELSE /\ processed_dir' = processed_dir
               /\ status' = Some("raised")
               /\ full_runs' = full_runs
    /\ pc' = "idle"
    /\ last_check' = None
    /\ run_log' = Append(run_log, "store")
    /\ UNCHANGED <<now, raw_dir, reports_dir, skip_enrichment, start_day, report_day,
                   started>>
    /\ UNCHANGED <<enrichVars, gradeVars, reportVars, transformVars>>

\* StorageManager().file_exists_for_today(directory, prefix), called directly
FileExistsForToday ==
    /\ pc = "idle"
    /\ last_check = None
    /\ \E d \in Directories, prefix \in Prefixes :
          last_check' = Some([directory |-> d, prefix |-> prefix,
                              result |-> file_exists_for_today(Dir(d), prefix, now)])
    /\ UNCHANGED <<now, raw_dir, processed_dir, reports_dir, pc, skip_enrichment, status,
                   start_day, report_day, full_runs, started, run_log>>
    /\ UNCHANGED <<enrichVars, gradeVars, reportVars, transformVars>>

NextRun ==
    \/ Tick
    \/ StartRun
    \/ Fetch
    \/ Enrich
    \/ Transform
    \/ QualityReport
    \/ Store
    \/ FileExistsForToday

SpecRun == InitRun /\ [][NextRun]_vars

----------------------------------------------------------------------------
(* Claims about the incremental guard                                      *)

Range(seq) == {seq[i] : i \in DOMAIN seq}

QualityReports == {f \in reports_dir : f.prefix = "meteo_quality"}

\* A call of run_pipeline is made in this step.
RunCalled == started' = started + 1

\* The call made in this step returned the skipped_incremental status at once.
RunSkipped == status' = Some("skipped_incremental") /\ pc' = "idle"

\* C4: once a run has gone through all its stages, every later call of
\* run_pipeline made on the calendar day of that run (the day stamped on its
\* meteo_quality report) returns skipped_incremental, and no run ever writes
\* a second meteo_quality report for a calendar day that already has one.
C4_OncePerDay ==
    [][ /\ (RunCalled /\ \E r \in Range(full_runs) : r.report = Today(now)) => RunSkipped
        /\ \A f \in QualityReports' \ QualityReports :
              \A g \in QualityReports : g.date # f.date ]_vars

\* A second call on the day of a full run has been skipped.
C4_Witness ==
    /\ started >= 2
    /\ pc = "idle"
    /\ status = Some("skipped_incremental")
    /\ \E r \in Range(full_runs) : r.report = Today(now) /\ r.start = r.report

\* The same, after a full run that began the day before its report.
C4_WitnessOverMidnight ==
    /\ started >= 2
    /\ status = Some("skipped_incremental")
    /\ \E r \in Range(full_runs) : r.report = Today(now) /\ r.start < r.report

\* C5: file_exists_for_today(directory, prefix) returns true if and only if
\* the directory holds at least one file named {prefix}_{today's date}_*.
C5_MatchesAnyFileOfToday ==
    last_check # None =>
        LET c == last_check[1] IN
        c.result <=> \E f \in Dir(c.directory) :
                        f.prefix = c.prefix /\ f.date = Today(now)

\* What the code computes: the same with the ".md" suffix required.
C5_MatchesReportOfToday ==
    last_check # None =>
        LET c == last_check[1] IN
        c.result <=> \E f \in Dir(c.directory) :
                        f.prefix = c.prefix /\ f.date = Today(now) /\ f.ext = "md"

\* Nothing is written to a data directory in this step.
NoArtifactWritten ==
    /\ raw_dir' = raw_dir
    /\ processed_dir' = processed_dir
    /\ reports_dir' = reports_dir

ReportOfTodayExists == \E f \in QualityReports : f.date = Today(now)

\* C13: a run_pipeline call made while today's meteo_quality report exists
\* returns skipped_incremental without raising, and does none of the later
\* steps: no fetch, no geocode lookup, no transformation, and no raw, report
\* or table file is written, until another call is made.
C13_GuardGatesRun ==
    [][ /\ (RunCalled /\ ReportOfTodayExists) =>
              /\ RunSkipped
              /\ run_log' = <<>>
              /\ NoArtifactWritten
        /\ (status = Some("skipped_incremental") /\ ~RunCalled) =>
              /\ pc' = "idle"
              /\ run_log' = <<>>
              /\ status' = status
              /\ NoArtifactWritten ]_vars

\* The second call was skipped and left the one raw file of the first run.
C13_Witness ==
    /\ started = 2
    /\ status = Some("skipped_incremental")
    /\ pc = "idle"
    /\ run_log = <<>>
    /\ ReportOfTodayExists
    /\ Cardinality(raw_dir) = 1
    /\ Cardinality(reports_dir) = 1

\* C20: the report is written once the cleaned table is persisted, so a run
\* that fails while persisting the table leaves no report for today (and
\* later runs of the day are not skipped).
C20_ReportIsLastDeliverable ==
    (pc = "idle" /\ status = Some("raised")) =>
        ~file_exists_for_today(reports_dir, "meteo_quality", now)

----------------------------------------------------------------------------
(* quality.py: generate_ai_recommendations and generate_report             *)

\* quality.py:133-136, in priority order
models_to_try == <<"gemini/gemini-2.5-flash-lite", "ollama/mistral">>

\* How one completion() call, with the read of its first choice, can end:
\* a text, litellm's AuthenticationError, or any other Exception.
ProviderOutcomes == {"ok", "AuthenticationError", "Exception"}

\* response.choices[0].message.content of a given provider
Content(model) == <<"recommendations", model>>

\* quality.py:172
Apology == <<"Recommandations IA indisponibles">>

caught_auth_only(outcome) == outcome = "AuthenticationError"

\* quality.py:162-169: the two except clauses of the loop body
caught(outcome) == outcome \in {"AuthenticationError", "Exception"}

try_model_no_return(model, outcome) ==
    IF outcome = "ok" \/ caught(outcome) THEN [kind |-> "continue", value |-> None]
    ELSE [kind |-> "raise", value |-> None]

\* quality.py:150-169: one pass of the loop body
try_model(model, outcome) ==
    IF outcome = "ok" THEN [kind |-> "return", value |-> Some(Content(model))]
    ELSE IF caught(outcome) THEN [kind |-> "continue", value |-> None]
    ELSE [kind |-> "raise", value |-> None]

\* quality.py:143-172: the loop, from provider i on; the calls made so far
\* are carried along.  outcomes[i] is how provider i would answer.
RECURSIVE fallback_loop(_, _, _)
fallback_loop(i, outcomes, made) ==
    IF i > Len(models_to_try)
    THEN [calls |-> made, raised |-> FALSE, value |-> Some(Apology)]
    ELSE LET r == try_model(models_to_try[i], outcomes[i])
             log == Append(made, [model |-> models_to_try[i], outcome |-> outcomes[i]])
         IN  CASE r.kind = "return" -> [calls |-> log, raised |-> FALSE, value |-> r.value]
               [] r.kind = "raise" -> [calls |-> log, raised |-> TRUE, value |-> None]
               [] OTHER -> fallback_loop(i + 1, outcomes, log)

\* quality.py:115-172
generate_ai_recommendations(outcomes) == fallback_loop(1, outcomes, <<>>)

\* What the caller of a call that ended in an exception is left with
Raised == <<"raised">>

Written(path) == <<"written", path>>

OutcomeTables == [1..Len(models_to_try) -> ProviderOutcomes]

ReportNames == {"quality_report", "meteo_quality"}

\* The batches of the report model: empty, or one row as the pipeline hands it over.
ReportFrames ==
    LET lists == {<<>>} \cup {<<r>> : r \in BatchRows}
    IN  {DataFrame(fs) : fs \in lists} \cup {WithoutGeocoding(DataFrame(fs)) : fs \in lists}

\* quality.py:176-177 and 117-118: "if not self.metrics: self.analyze()"
metrics_or_analyze(m, frame) == IF m = None THEN analyze(frame) ELSE m[1]

\* QualityAnalyzer(df), on a clock that may stand anywhere
InitReport ==
    /\ EnricherCreated
    /\ NoReport
    /\ NoTransformer
    /\ df \in ReportFrames
    /\ metrics = None
    /\ grade_call = None
    /\ now \in 0..MaxClock
    /\ raw_dir = {}
    /\ processed_dir = {}
    /\ reports_dir = {}
    /\ pc = "idle"
    /\ skip_enrichment = FALSE
    /\ status = None
    /\ start_day = 0
    /\ report_day = 0
    /\ full_runs = <<>>
    /\ started = 0
    /\ last_check = None
    /\ run_log = <<>>

\* analyzer.generate_ai_recommendations(), called directly
GenerateAIRecommendations ==
    /\ recommendations = None
    /\ report_result = None
    /\ \E outcomes \in OutcomeTables :
          LET r == generate_ai_recommendations(outcomes)
          IN  /\ calls' = r.calls
              /\ recommendations' = IF r.raised THEN Some(Raised) ELSE r.value
    /\ metrics' = Some(metrics_or_analyze(metrics, df))
    /\ UNCHANGED <<df, grade_call, report, report_result>>
    /\ UNCHANGED <<enrichVars, runVars, transformVars>>

\* analyzer.generate_report(output_name): quality.py:174-227
GenerateReport ==
    /\ report_result = None
    /\ \E outcomes \in OutcomeTables, output_name \in ReportNames :
          LET m == metrics_or_analyze(metrics, df)
              r == generate_ai_recommendations(outcomes)
          IN  /\ metrics' = Some(m)
              /\ calls' = r.calls
              /\ IF r.raised
                 THEN /\ recommendations' = Some(Raised)
                      /\ report' = report
                      /\ report_result' = Some(Raised)
                      /\ reports_dir' = reports_dir
                 ELSE /\ recommendations' = r.value
                      /\ report' = Some([grade |-> m.quality_grade,
                                         total_records |-> m.total_records,
                                         null_counts |-> m.null_counts,
                                         recommendations |-> r.value[1]])
                      /\ report_result' = Some(Written(generate_report(output_name, now)))
                      /\ reports_dir' = reports_dir \cup {generate_report(output_name, now)}
    /\ UNCHANGED <<df, grade_call>>
    /\ UNCHANGED <<now, raw_dir, processed_dir, pc, skip_enrichment, status,
                   start_day, report_day, full_runs, started, last_check, run_log>>
    /\ UNCHANGED <<enrichVars, transformVars>>

NextReport ==
    \/ GenerateAIRecommendations
    \/ GenerateReport

SpecReport == InitReport /\ [][NextReport]_vars

----------------------------------------------------------------------------
(* Claims about the recommendations and the report, checked under SpecReport *)

Failed(outcome) == outcome # "ok"

\* C11: the providers are called in their priority order, provider i+1 only
\* after provider i has failed (authentication failure or any other error),
\* none after one has succeeded, and the text returned is that of the first
\* provider that succeeded.
C11_FallbackOrder ==
    /\ Len(calls) <= Len(models_to_try)
    /\ \A i \in 1..Len(calls) :
          /\ calls[i].model = models_to_try[i]
          /\ i < Len(calls) => Failed(calls[i].outcome)
    /\ (calls # <<>> /\ Failed(calls[Len(calls)].outcome)) => Len(calls) = Len(models_to_try)
    /\ (calls # <<>> /\ ~Failed(calls[Len(calls)].outcome)) =>
          recommendations = Some(Content(calls[Len(calls)].model))

\* The second provider answered after the first failed other than by authentication.
C11_Witness ==
    /\ Len(calls) = 2
    /\ calls[1].outcome = "Exception"
    /\ calls[2].outcome = "ok"
    /\ recommendations = Some(Content(models_to_try[2]))

\* C12: whatever the providers answer, generate_report ends without an
\* exception of the recommendation step and writes a report; when every
\* provider failed, the report's recommendations are the fixed apology.
C12_ReportAlwaysProduced ==
    (calls # <<>> /\ report_result # None) =>
        /\ report_result[1][1] = "written"
        /\ report # None
        /\ report_result[1][2] \in reports_dir
        /\ (\A i \in 1..Len(calls) : Failed(calls[i].outcome)) =>
              /\ Len(calls) = Len(models_to_try)
              /\ report[1].recommendations = Apology

\* A report written after an authentication failure and another error.
C12_Witness ==
    /\ report_result # None
    /\ Len(calls) = 2
    /\ calls[1].outcome = "AuthenticationError"
    /\ calls[2].outcome = "Exception"
    /\ report # None
    /\ report[1].recommendations = Apology
    /\ report_result[1][1] = "written"
    /\ report_result[1][2] \in reports_dir

----------------------------------------------------------------------------
(* transformer.py DataTransformer, as the spec describes it.               *)
(* A numeric cell is a nullable exact fraction, a text cell a nullable     *)
(* string.  A row carries every field; columns says which of them exist.   *)

BaseColumns == {"date", "latitude", "longitude", "validated_city",
                "temperature_max", "temperature_min", "precipitation_sum"}

DerivedColumns == {"temperature_amplitude", "precipitation_category"}

NumericColumns == {"latitude", "longitude", "temperature_max", "temperature_min",
                   "precipitation_sum", "temperature_amplitude"}

TextColumns == {"date", "validated_city", "precipitation_category"}

Num(n) == Some(Whole(n))

Row(date, lat, lon, city, tmax, tmin, precip) ==
    [date |-> Some(date), latitude |-> lat, longitude |-> lon, validated_city |-> city,
     temperature_max |-> tmax, temperature_min |-> tmin, precipitation_sum |-> precip,
     temperature_amplitude |-> None, precipitation_category |-> None]

\* test_transformer.py:14-21, with temperature_min of test_add_derived_columns
sample_df ==
    [columns |-> BaseColumns,
     rows |-> << Row(<<"1">>, Num(48), Num(2), Some(<<" ", "P", " ">>), Num(10), Num(5), Num(0)),
                 Row(<<"2">>, Num(48), Num(2), None, None, Num(0), Num(5)),
                 Row(<<"1">>, Num(48), Num(2), Some(<<"P">>), Num(10), Num(5), Num(0)),
                 Row(<<"3">>, Num(45), Num(4), Some(<<"L">>), Num(100), Num(50), Num(50)) >>]

\* A row without any measurement, and one between the sample's values.
EmptyRow == Row(<<"2">>, Num(45), Num(4), None, None, None, None)

MidRow == Row(<<"3">>, Num(45), Num(4), Some(<<"L">>), Num(20), Num(5), Num(30))

TransformerRows == Range(sample_df.rows) \cup {EmptyRow, MidRow}

Batches ==
    {sample_df} \cup {[columns |-> BaseColumns, rows |-> rs] :
                         rs \in SeqsUpTo(TransformerRows, MaxBatch)}

KeyLists == {<<"date", "latitude", "longitude">>, <<"date">>}

KeyOf(row, keys) == [k \in 1..Len(keys) |-> row[keys[k]]]

RECURSIVE drop_duplicates_keep_last(_, _)
drop_duplicates_keep_last(rows, keys) ==
    IF rows = <<>> THEN <<>>
    ELSE IF \E j \in 2..Len(rows) : KeyOf(rows[j], keys) = KeyOf(rows[1], keys)
         THEN drop_duplicates_keep_last(Tail(rows), keys)
         ELSE <<rows[1]>> \o drop_duplicates_keep_last(Tail(rows), keys)

\* Walks the rows in order and keeps a row when its key was not seen before.
RECURSIVE drop_duplicates(_, _)
drop_duplicates(rows, keys) ==
    IF rows = <<>> THEN <<>>
    ELSE LET kept == drop_duplicates(SubSeq(rows, 1, Len(rows) - 1), keys)
             last == rows[Len(rows)]
         IN  IF \E j \in 1..Len(kept) : KeyOf(kept[j], keys) = KeyOf(last, keys)
             THEN kept
             ELSE Append(kept, last)

\* One entry of transformations_applied: the stage and the count it affected.
Entry(stage, count) == <<stage, count>>

\* remove_duplicates(subset)
remove_duplicates(frame, log, keys) ==
    LET rows == drop_duplicates(frame.rows, keys)
    IN  [df |-> [frame EXCEPT !.rows = rows],
         transformations_applied |->
            Append(log, Entry("remove_duplicates", Len(frame.rows) - Len(rows)))]

\* The non-missing values of a column, in row order.
RECURSIVE present(_, _)
present(rows, col) ==
    IF rows = <<>> THEN <<>>
    ELSE IF rows[1][col] = None THEN present(Tail(rows), col)
         ELSE <<rows[1][col][1]>> \o present(Tail(rows), col)

RECURSIVE insert_sorted(_, _)
insert_sorted(sorted, v) ==
    IF sorted = <<>> THEN <<v>>
    ELSE IF FracLE(v, sorted[1]) THEN <<v>> \o sorted
         ELSE <<sorted[1]>> \o insert_sorted(Tail(sorted), v)

RECURSIVE sort_values(_)
sort_values(values) ==
    IF values = <<>> THEN <<>> ELSE insert_sorted(sort_values(Tail(values)), values[1])

RECURSIVE sum_values(_)
sum_values(values) ==
    IF values = <<>> THEN Whole(0) ELSE FracAdd(values[1], sum_values(Tail(values)))

mean(values) ==
    LET total == sum_values(values) IN Frac(total.num, total.den * Len(values))

median(values) ==
    LET sorted == sort_values(values)
        n == Len(sorted)
    IN  IF n % 2 = 1 THEN sorted[(n + 1) \div 2]
        ELSE LET both == FracAdd(sorted[n \div 2], sorted[(n \div 2) + 1])
             IN  Frac(both.num, both.den * 2)

numeric_fill_mean(values, strategy) ==
    IF strategy = "zero" THEN Some(Whole(0))
    ELSE IF values = <<>> THEN None
    ELSE Some(mean(values))

\* The value that fills the holes of one numeric column (none when the
\* column has no value to compute it from).
numeric_fill(values, strategy) ==
    IF strategy = "zero" THEN Some(Whole(0))
    ELSE IF values = <<>> THEN None
    ELSE IF strategy = "mean" THEN Some(mean(values))
    ELSE Some(median(values))

NumericStrategies == {"mean", "median", "zero"}

Unknown == <<"u", "n", "k", "n", "o", "w", "n">>

fill_cell(frame, row, col, numeric_strategy, text_strategy) ==
    IF col \notin frame.columns \/ row[col] # None THEN row[col]
    ELSE IF col \in NumericColumns
         THEN numeric_fill(present(frame.rows, col), numeric_strategy)
         ELSE Some(text_strategy)

CountFilled(old, new) ==
    Cardinality({<<i, c>> \in (1..Len(old.rows)) \X old.columns :
                    old.rows[i][c] = None /\ new.rows[i][c] # None})

fill_missing(frame, numeric_strategy, text_strategy) ==
    [frame EXCEPT !.rows =
        [i \in 1..Len(frame.rows) |->
            [c \in DOMAIN frame.rows[i] |->
                fill_cell(frame, frame.rows[i], c, numeric_strategy, text_strategy)]]]

handle_missing_values_quiet(frame, log, numeric_strategy, text_strategy) ==
    LET filled == fill_missing(frame, numeric_strategy, text_strategy)
    IN  [df |-> filled,
         transformations_applied |->
            IF CountFilled(frame, filled) = 0 THEN log
            ELSE Append(log, Entry("handle_missing_values", CountFilled(frame, filled)))]

\* handle_missing_values(numeric_strategy, text_strategy), column by column
handle_missing_values(frame, log, numeric_strategy, text_strategy) ==
    LET filled == fill_missing(frame, numeric_strategy, text_strategy)
    IN  [df |-> filled,
         transformations_applied |->
            Append(log, Entry("handle_missing_values", CountFilled(frame, filled)))]

lower_char(c) == IF c = "P" THEN "p" ELSE IF c = "L" THEN "l" ELSE c

\* str.strip().lower()
normalize(text) == LET t == strip(text) IN [i \in 1..Len(t) |-> lower_char(t[i])]

\* normalize_text_columns(columns); missing cells stay missing
normalize_text_columns(frame, log, columns) ==
    LET named == {columns[k] : k \in 1..Len(columns)} \cap frame.columns
        normalized ==
            [frame EXCEPT !.rows =
                [i \in 1..Len(frame.rows) |->
                    [c \in DOMAIN frame.rows[i] |->
                        IF c \in named /\ frame.rows[i][c] # None
                        THEN Some(normalize(frame.rows[i][c][1]))
                        ELSE frame.rows[i][c]]]]
    IN  [df |-> normalized,
         transformations_applied |->
            Append(log, Entry("normalize_text_columns", Cardinality(named)))]

\* The four ordered categories, lowest first.
Categories == <<<<"nulle">>, <<"faible">>, <<"moderee">>, <<"forte">>>>

category_of_swapped(precipitation, cuts) ==
    IF FracLE(precipitation, Whole(cuts[1])) THEN Categories[2]
    ELSE IF FracLE(precipitation, Whole(cuts[2])) THEN Categories[1]
    ELSE IF FracLE(precipitation, Whole(cuts[3])) THEN Categories[3]
    ELSE Categories[4]

\* The bucket of a precipitation_sum under ordered thresholds.
category_of(precipitation, cuts) ==
    IF FracLE(precipitation, Whole(cuts[1])) THEN Categories[1]
    ELSE IF FracLE(precipitation, Whole(cuts[2])) THEN Categories[2]
    ELSE IF FracLE(precipitation, Whole(cuts[3])) THEN Categories[3]
    ELSE Categories[4]

\* temperature_max - temperature_min, missing when either is
amplitude(row) ==
    IF row.temperature_max = None \/ row.temperature_min = None THEN None
    ELSE LET a == row.temperature_max[1]
             b == row.temperature_min[1]
         IN  Some(Frac(a.num * b.den - b.num * a.den, a.den * b.den))

\* add_derived_columns()
add_derived_columns(frame, log, cuts) ==
    LET derived ==
            [columns |-> frame.columns \cup DerivedColumns,
             rows |-> [i \in 1..Len(frame.rows) |->
                [frame.rows[i] EXCEPT
                    !.temperature_amplitude = amplitude(frame.rows[i]),
                    !.precipitation_category =
                        IF frame.rows[i].precipitation_sum = None THEN None
                        ELSE Some(category_of(frame.rows[i].precipitation_sum[1], cuts))]]]
    IN  [df |-> derived,
         transformations_applied |->
            Append(log, Entry("add_derived_columns", Cardinality(DerivedColumns)))]

\* Ordered thresholds that leave 50 in the highest bucket.
CutPointChoices == {<<0, 5, 20>>, <<0, 1, 10>>, <<1, 10, 49>>}

\* The n-th stage call, by name and arguments.
Stage(n, name, args) == [n |-> n, name |-> name, args |-> args]

StageCount == IF last_stage = None THEN 0 ELSE last_stage[1].n

\* DataTransformer(df)
InitTransform ==
    /\ EnricherCreated
    /\ NoAnalyzer
    /\ NoRun
    /\ NoReport
    /\ tdf \in Batches
    /\ transformations_applied = <<>>
    /\ before = None
    /\ last_stage = None
    /\ cut_points \in CutPointChoices

\* What every stage call does with its result; the stage returns self.
Applied(result, name, args) ==
    /\ tdf' = result.df
    /\ transformations_applied' = result.transformations_applied
    /\ before' = Some(tdf)
    /\ last_stage' = Some(Stage(StageCount + 1, name, args))
    /\ UNCHANGED cut_points
    /\ UNCHANGED <<enrichVars, gradeVars, runVars, reportVars>>

RemoveDuplicates ==
    /\ StageCount < MaxStages
    /\ \E keys \in KeyLists :
          Applied(remove_duplicates(tdf, transformations_applied, keys),
                  "remove_duplicates", keys)

HandleMissingValues ==
    /\ StageCount < MaxStages
    /\ \E numeric_strategy \in NumericStrategies :
          Applied(handle_missing_values(tdf, transformations_applied, numeric_strategy, Unknown),
                  "handle_missing_values", <<numeric_strategy>>)

NormalizeTextColumns ==
    /\ StageCount < MaxStages
    /\ Applied(normalize_text_columns(tdf, transformations_applied, <<"validated_city">>),
               "normalize_text_columns", <<"validated_city">>)

AddDerivedColumns ==
    /\ StageCount < MaxStages
    /\ Applied(add_derived_columns(tdf, transformations_applied, cut_points),
               "add_derived_columns", <<>>)

NextTransform ==
    \/ RemoveDuplicates
    \/ HandleMissingValues
    \/ NormalizeTextColumns
    \/ AddDerivedColumns

SpecTransform == InitTransform /\ [][NextTransform]_vars

----------------------------------------------------------------------------
(* Claims about the DataTransformer, checked under SpecTransform *)

\* A stage is called in this step.
StageCalled == last_stage' # last_stage

StageIs(stage, name) == stage # None /\ stage[1].name = name

\* The rows whose key tuple no earlier row has.
FirstOccurrences(rows, keys) ==
    {i \in 1..Len(rows) : \A j \in 1..(i - 1) : KeyOf(rows[j], keys) # KeyOf(rows[i], keys)}

KeepsFirstOfEachGroup(result, rows, keys) ==
    LET first == FirstOccurrences(rows, keys)
    IN  /\ Len(result) = Cardinality(first)
        /\ \A i \in first : result[Cardinality({j \in first : j <= i})] = rows[i]

\* C16: remove_duplicates keeps exactly the first row, in the original
\* order, of each group of rows with the same key tuple, never returns more
\* rows than it got, and changes nothing when applied a second time with
\* the same keys.
C16_RemoveDuplicatesIdempotent ==
    [][ (StageCalled /\ StageIs(last_stage', "remove_duplicates")) =>
            LET keys == last_stage'[1].args
            IN  /\ KeepsFirstOfEachGroup(tdf'.rows, tdf.rows, keys)
                /\ Len(tdf'.rows) <= Len(tdf.rows)
                /\ tdf'.columns = tdf.columns
                /\ (StageIs(last_stage, "remove_duplicates") /\ last_stage[1].args = keys)
                      => tdf' = tdf ]_vars

\* The test's batch, deduplicated twice on (date, latitude, longitude): the
\* third row is gone after the first call and nothing after the second.
C16_Witness ==
    /\ StageIs(last_stage, "remove_duplicates")
    /\ last_stage[1].n = 2
    /\ last_stage[1].args = <<"date", "latitude", "longitude">>
    /\ Len(transformations_applied) = 2
    /\ transformations_applied[1] = Entry("remove_duplicates", 1)
    /\ tdf.rows = <<sample_df.rows[1], sample_df.rows[2], sample_df.rows[4]>>
    /\ before = Some(tdf)

\* C17: every stage call appends one entry to transformations_applied and
\* leaves the earlier entries as they were, so after n stage calls the log
\* holds n entries, in call order.
C17_LogAppendOnly ==
    [][ StageCalled =>
            /\ Len(transformations_applied') = Len(transformations_applied) + 1
            /\ SubSeq(transformations_applied', 1, Len(transformations_applied))
                  = transformations_applied
            /\ transformations_applied'[Len(transformations_applied')][1] = last_stage'[1].name
            /\ Len(transformations_applied') = last_stage'[1].n ]_vars

\* The three-stage chain of the test, on a batch with nothing to fill.
C17_Witness ==
    /\ Len(transformations_applied) = 3
    /\ transformations_applied[1][1] = "remove_duplicates"
    /\ transformations_applied[2] = Entry("handle_missing_values", 0)
    /\ transformations_applied[3][1] = "normalize_text_columns"
    /\ StageIs(last_stage, "normalize_text_columns")

CategoryRank(category) == CHOOSE k \in 1..Len(Categories) : Categories[k] = category

\* C18: add_derived_columns gives every row with a precipitation_sum one of
\* the four ordered categories, a higher precipitation_sum never a lower
\* category, and a precipitation_sum of 50 the highest one ("forte").
C18_PrecipitationMonotonic ==
    StageIs(last_stage, "add_derived_columns") =>
        LET measured == {i \in 1..Len(tdf.rows) : tdf.rows[i].precipitation_sum # None}
        IN  /\ "precipitation_category" \in tdf.columns
            /\ \A i \in measured :
                  /\ tdf.rows[i].precipitation_category # None
                  /\ tdf.rows[i].precipitation_category[1] \in Range(Categories)
                  /\ tdf.rows[i].precipitation_sum[1] = Whole(50)
                        => tdf.rows[i].precipitation_category[1] = <<"forte">>
            /\ \A i, j \in measured :
                  FracLE(tdf.rows[i].precipitation_sum[1], tdf.rows[j].precipitation_sum[1])
                     => CategoryRank(tdf.rows[i].precipitation_category[1])
                           <= CategoryRank(tdf.rows[j].precipitation_category[1])

\* The test's batch with its categories: 0, 5, 0 and 50 millimetres.
C18_Witness ==
    /\ StageIs(last_stage, "add_derived_columns")
    /\ before = Some(sample_df)
    /\ tdf.rows[4].precipitation_category = Some(<<"forte">>)
    /\ tdf.rows[1].precipitation_category = Some(<<"nulle">>)
    /\ tdf.rows[2].precipitation_category # tdf.rows[1].precipitation_category

Below(values, x) == Cardinality({i \in 1..Len(values) : ~FracLE(x, values[i])})

AtMost(values, x) == Cardinality({i \in 1..Len(values) : FracLE(values[i], x)})

\* x is the k-th smallest of the values.
IsKth(values, x, k) ==
    /\ \E i \in 1..Len(values) : values[i] = x
    /\ Below(values, x) < k
    /\ k <= AtMost(values, x)

IsMedian(values, m) ==
    LET n == Len(values)
    IN  IF n % 2 = 1 THEN IsKth(values, m, (n + 1) \div 2)
        ELSE \E i, j \in 1..n :
                /\ IsKth(values, values[i], n \div 2)
                /\ IsKth(values, values[j], (n \div 2) + 1)
                /\ 2 * m.num * values[i].den * values[j].den
                      = (values[i].num * values[j].den + values[j].num * values[i].den) * m.den

\* C19: handle_missing_values with the median strategy leaves every
\* non-missing value as it was and puts, in each missing cell of a numeric
\* column that has a value, the median of that column's own values, so that
\* such a column has no missing cell left; [10, null, 10, 100] becomes
\* [10, 10, 10, 100].
C19_MedianPerColumn ==
    (StageIs(last_stage, "handle_missing_values") /\ last_stage[1].args = <<"median">>) =>
        LET old == before[1]
        IN  /\ Len(tdf.rows) = Len(old.rows)
            /\ \A i \in 1..Len(old.rows) : \A c \in old.columns :
                  /\ old.rows[i][c] # None => tdf.rows[i][c] = old.rows[i][c]
                  /\ (/\ old.rows[i][c] = None
                      /\ c \in NumericColumns
                      /\ \E j \in 1..Len(old.rows) : old.rows[j][c] # None) =>
                        /\ tdf.rows[i][c] # None
                        /\ LET values ==
                                  [k \in 1..Cardinality({j \in 1..Len(old.rows) : old.rows[j][c] # None})
                                     |-> LET j == CHOOSE j \in 1..Len(old.rows) :
                                                    /\ old.rows[j][c] # None
                                                    /\ Cardinality({h \in 1..j : old.rows[h][c] # None}) = k
                                         IN  old.rows[j][c][1]]
                           IN  IsMedian(values, tdf.rows[i][c][1])

\* The test's temperature_max column.
C19_Witness ==
    /\ StageIs(last_stage, "handle_missing_values")
    /\ last_stage[1].args = <<"median">>
    /\ before = Some(sample_df)
    /\ [i \in 1..4 |-> tdf.rows[i].temperature_max] = <<Num(10), Num(10), Num(10), Num(100)>>

----------------------------------------------------------------------------
(* The records of one run_pipeline call, from the fetch to the             *)
(* deduplication (main.py:81-122)                                          *)

\* city_names[:max_items]: the cities one call fetches
CityLists == SeqsUpTo({Paris, Lyon, Toulouse}, MaxCities)

\* openmeteo.py:106-119: the forecasts of one city, one per day, at the
\* point the weather service answers with (data['latitude'],
\* data['longitude']): one point per pair of coordinates asked for, so that
\* two cities asked for at the same coordinates get the same point
city_forecasts(city) ==
    [d \in 1..ForecastDays |->
        WeatherForecast(d, city, DUMMY_COORDS(city)[1], DUMMY_COORDS(city)[2])]

\* openmeteo.py:89-119: city after city; a city without data is passed over
RECURSIVE openmeteo_fetch_all(_, _)
openmeteo_fetch_all(cities, answered) ==
    IF cities = <<>> THEN <<>>
    ELSE (IF Head(cities) \in answered THEN city_forecasts(Head(cities)) ELSE <<>>)
         \o openmeteo_fetch_all(Tail(cities), answered)

\* main.py:122  remove_duplicates(['date', 'latitude', 'longitude'])
PipelineKeys == <<"date", "latitude", "longitude">>

InitPipeline ==
    EnricherCreated /\ NoAnalyzer /\ NoRun /\ NoReport /\ NoTransformer

\* main.py:81-93
FetchForecasts ==
    /\ pc = "idle"
    /\ started = 0
    /\ started' = 1
    /\ \E cities \in CityLists, answered \in SUBSET {Paris, Lyon, Toulouse},
          skip \in BOOLEAN :
          /\ forecasts' = openmeteo_fetch_all(cities, answered)
          /\ skip_enrichment' = skip
          /\ IF forecasts' = <<>>
             THEN pc' = "idle" /\ status' = Some("no_data")
             ELSE pc' = (IF skip THEN "transform" ELSE "enrich") /\ status' = None
    /\ run_log' = Append(run_log, "fetch")
    /\ UNCHANGED <<now, raw_dir, processed_dir, reports_dir, start_day, report_day,
                   full_runs, last_check>>
    /\ UNCHANGED <<addresses, requested, lookup_log, geocoding_cache, enriched,
                   enrichment_stats, stats_out, passed, step>>
    /\ UNCHANGED <<gradeVars, reportVars, transformVars>>

\* main.py:95-113
EnrichStage ==
    /\ pc = "enrich"
    /\ LET found == extract_addresses(forecasts)
       IN  /\ addresses' = found
           /\ IF found # {}
              THEN \E outcome \in [found -> LookupOutcomes] :
                      LET cache == build_geocoding_cache(SeqOf(found), outcome)
                          out == enrich_forecasts(forecasts, cache, enrichment_stats)
                      IN  /\ requested' = found
                          /\ lookup_log' = lookups(SeqOf(found), outcome)
                          /\ geocoding_cache' = cache
                          /\ forecasts' = out.enriched
                          /\ enriched' = out.enriched
                          /\ enrichment_stats' = out.stats
                          /\ stats_out' = Some(get_stats(out.stats))
              ELSE UNCHANGED <<requested, lookup_log, geocoding_cache, forecasts, enriched,
                               enrichment_stats, stats_out>>
    /\ pc' = "transform"
    /\ run_log' = Append(run_log, "enrich")
    /\ UNCHANGED <<passed, step>>
    /\ UNCHANGED <<now, raw_dir, processed_dir, reports_dir, skip_enrichment, status,
                   start_day, report_day, full_runs, started, last_check>>
    /\ UNCHANGED <<gradeVars, reportVars, transformVars>>

\* main.py:117-122: the batch and its deduplication; the stages chained
\* after it (main.py:123-126) change cells and columns, not the rows kept
DeduplicateStage ==
    /\ pc = "transform"
    /\ LET result == remove_duplicates(DataFrame(forecasts), <<>>, PipelineKeys)
       IN  /\ tdf' = result.df
           /\ transformations_applied' = result.transformations_applied
           /\ before' = Some(DataFrame(forecasts))
           /\ last_stage' = Some(Stage(1, "remove_duplicates", PipelineKeys))
    /\ pc' = "quality"
    /\ run_log' = Append(run_log, "transform")
    /\ UNCHANGED cut_points
    /\ UNCHANGED <<now, raw_dir, processed_dir, reports_dir, skip_enrichment, status,
                   start_day, report_day, full_runs, started, last_check>>
    /\ UNCHANGED <<enrichVars, gradeVars, reportVars>>

NextPipeline ==
    \/ FetchForecasts
    \/ EnrichStage
    \/ DeduplicateStage

SpecPipeline == InitPipeline /\ [][NextPipeline]_vars

----------------------------------------------------------------------------
(* Claim about the pipeline's deduplication, checked under SpecPipeline *)

\* C21: the deduplication on (date, latitude, longitude) drops a row only
\* if an earlier row has the same (date, original_city_name): the first row
\* of every (date, city) pair is kept, so that two rows of one date for two
\* city names are both kept, whatever their coordinates.
C21_NoObservationLost ==
    pc = "quality" =>
        LET fetched == before[1].rows
        IN  /\ KeyPairs(tdf) = KeyPairs(before[1])
            /\ \A i \in 1..Len(fetched) :
                  (\A j \in 1..(i - 1) :
                      <<fetched[j].date, fetched[j].original_city_name>>
                         # <<fetched[i].date, fetched[i].original_city_name>>)
                  => \E k \in 1..Len(tdf.rows) : tdf.rows[k] = fetched[i]

====
